---------------------------- MODULE Spec2Model ----------------------------
(***************************************************************************)
(* Model of compress-png (src/src/main.rs): the decoded frame is reduced   *)
(* by trivial_compress, palettised by calc_pallet, encoded once per        *)
(* scan-line filter, and the smallest encoding is written to out.png.      *)
(*                                                                         *)
(* The png crate's decoder and encoder are outside the repository.  The    *)
(* model starts from a decoded 8-bit frame (main.rs:44) and treats the     *)
(* encoder as an environment function of the filter: for each filter it    *)
(* either fails (the unwrap() in encode panics) or returns a stream of     *)
(* some length.  The stream is modelled by what it carries (header fields, *)
(* palette and image data), so two streams are equal exactly when they     *)
(* were produced from equal arguments and have equal length.               *)
(***************************************************************************)
EXTENDS Integers, Sequences, FiniteSets, TLC

VARIABLES
    pc,                  \* position in main: decoded, reduced, search, done, panicked
    run,                 \* which execution of the program this is: first, second
    bytes,               \* main.rs:44, the decoded pixel buffer
    info,                \* main.rs:43, the frame's color_type, width, height
    encoder,             \* environment: the png encoder's behaviour per filter
    trivial_compressed,  \* main.rs:47
    color,               \* main.rs:47, the layout trivial_compress returns
    pallet_compressed,   \* main.rs:48
    color2,              \* main.rs:48, the binding that shadows color
    pallet,              \* main.rs:48, Option<Vec<u8>>
    bit_depth,           \* main.rs:48
    fidx,                \* position of the for loop of main.rs:52 (1..6)
    best_size,           \* main.rs:50
    best_out,            \* main.rs:51
    trials,              \* one entry per call of encode that returned: the filter
                         \* and out.len() printed at main.rs:54, and the color_type
                         \* the call was given
    out_png,             \* the file out.png
    wrote,               \* whether this execution has called fs::write (main.rs:60)
    prev_run             \* what the previous execution left: how it ended, what it wrote

vars == <<pc, run, bytes, info, encoder, trivial_compressed, color,
          pallet_compressed, color2, pallet, bit_depth, fidx, best_size,
          best_out, trials, out_png, wrote, prev_run>>

---------------------------------------------------------------------------
(* Bounds of the model *)

\* largest pixel count of the exhaustively enumerated frames
MaxPixels == 2

\* the encoder's stream lengths range over 1..MaxSize
MaxSize == 2

\* HashMap iteration orders range over seeds 0..MaxSeed
MaxSeed == 3

\* the boundary frames repeat their last colour 0..MaxRepeat extra times
MaxRepeat == 1

---------------------------------------------------------------------------
(* Program constants *)

\* 0xFF, the fully opaque alpha value
Opaque == 255

\* the largest number of distinct colours calc_pallet turns into a palette
PalletLimit == 256

\* the range of u8, for the cast `i as u8`
U8Range == 256

\* usize::MAX is 2^64 - 1; the model uses the largest integer TLC has, which
\* is above every length the modelled encoder returns
UsizeMax == 2147483647

\* BitDepth::Eight
Eight == 8

\* [FilterType::NoFilter, Sub, Up, Avg, Paeth] in the order of the for loop
Filters == <<"NoFilter", "Sub", "Up", "Avg", "Paeth">>

Channels(color_type) ==
    CASE color_type = "Grayscale"      -> 1
      [] color_type = "GrayscaleAlpha" -> 2
      [] color_type = "Rgb"            -> 3
      [] color_type = "Rgba"           -> 4
      [] color_type = "Indexed"        -> 1

\* the function f with every value computed once (TLC otherwise re-evaluates
\* the body of [x \in S |-> e] at each application)
Table(f) == f @@ <<>>

\* Option<Vec<u8>>
None == [some |-> FALSE, v |-> <<>>]

Some(v) == [some |-> TRUE, v |-> v]

---------------------------------------------------------------------------
(* IterPixel: itertools' tuples() groups the bytes and drops an incomplete  *)
(* trailing group.                                                         *)

iter_ga(data) ==
    Table([i \in 1..(Len(data) \div 2) |-> <<data[2*i - 1], data[2*i]>>])

iter_rgb(data) ==
    Table([i \in 1..(Len(data) \div 3) |->
              <<data[3*i - 2], data[3*i - 1], data[3*i]>>])

iter_rgba(data) ==
    Table([i \in 1..(Len(data) \div 4) |->
              <<data[4*i - 3], data[4*i - 2], data[4*i - 1], data[4*i]>>])

---------------------------------------------------------------------------
(* trivial_compress.  The result is <<buffer, layout>>.                    *)

\* a variant of rgb_loop that stops one pixel before the end of the buffer
RECURSIVE rgb_loop_short(_, _, _)
rgb_loop_short(data, i, gray) ==
    IF i >= Len(iter_rgb(data))
    THEN <<gray, "Grayscale">>
    ELSE LET p == iter_rgb(data)[i] IN
         IF p[1] = p[2] /\ p[1] = p[3]
         THEN rgb_loop_short(data, i + 1, Append(gray, p[1]))
         ELSE <<data, "Rgb">>

\* a variant of rgb_loop that leaves the loop at the first pixel that
\* differs and returns the gray bytes pushed so far
RECURSIVE rgb_loop_break(_, _, _)
rgb_loop_break(data, i, gray) ==
    IF i > Len(iter_rgb(data))
    THEN <<gray, "Grayscale">>
    ELSE LET p == iter_rgb(data)[i] IN
         IF p[1] = p[2] /\ p[1] = p[3]
         THEN rgb_loop_break(data, i + 1, Append(gray, p[1]))
         ELSE <<gray, "Grayscale">>

\* the for loop of the Rgb arm: push r while r == g == b, return the
\* borrowed input at the first pixel that differs
RECURSIVE rgb_loop(_, _, _)
rgb_loop(data, i, gray) ==
    IF i > Len(iter_rgb(data))
    THEN <<gray, "Grayscale">>
    ELSE LET p == iter_rgb(data)[i] IN
         IF p[1] = p[2] /\ p[1] = p[3]
         THEN rgb_loop(data, i + 1, Append(gray, p[1]))
         ELSE <<data, "Rgb">>

\* the for loop of the GrayscaleAlpha arm
RECURSIVE ga_loop(_, _, _)
ga_loop(data, i, gray) ==
    IF i > Len(iter_ga(data))
    THEN <<gray, "Grayscale">>
    ELSE LET p == iter_ga(data)[i] IN
         IF p[2] = Opaque
         THEN ga_loop(data, i + 1, Append(gray, p[1]))
         ELSE <<data, "GrayscaleAlpha">>

\* a variant of any_transparent without the skip(3): it tests the red bytes
any_transparent_no_skip(data) ==
    \E k \in 1..((Len(data) + 3) \div 4) : data[4*k - 3] # Opaque

\* data.iter().skip(3).step_by(4).any(|&a| a != 0xFF)
any_transparent(data) ==
    \E k \in 1..(Len(data) \div 4) : data[4*k] # Opaque

\* a variant of all_gray that compares r with g only
all_gray_rg(data) ==
    LET px == iter_rgba(data) IN
    \A i \in DOMAIN px : px[i][1] = px[i][2]

\* data.iter_rgba().all(|(r, g, b, _)| r == g && r == b)
all_gray(data) ==
    LET px == iter_rgba(data) IN
    \A i \in DOMAIN px : px[i][1] = px[i][2] /\ px[i][1] = px[i][3]

\* data.iter().step_by(4).copied().collect()
step_by_4(data) ==
    Table([k \in 1..((Len(data) + 3) \div 4) |-> data[4*k - 3]])

\* the loop pushing r, g, b of every pixel
drop_alpha(data) ==
    LET px == iter_rgba(data) IN
    Table([j \in 1..(3 * Len(px)) |-> px[(j + 2) \div 3][((j - 1) % 3) + 1]])

rgba_arm(data) ==
    IF any_transparent(data) THEN <<data, "Rgba">>
    ELSE IF all_gray(data) THEN <<step_by_4(data), "Grayscale">>
    ELSE <<drop_alpha(data), "Rgb">>

\* ColorType::Indexed is unreachable!(): the decoder expands palettes
\* (Transformations::EXPAND), and no frame of the model is Indexed
trivial_compress(data, color_type) ==
    CASE color_type = "Grayscale"      -> <<data, "Grayscale">>
      [] color_type = "Rgb"            -> rgb_loop(data, 1, <<>>)
      [] color_type = "GrayscaleAlpha" -> ga_loop(data, 1, <<>>)
      [] color_type = "Rgba"           -> rgba_arm(data)

---------------------------------------------------------------------------
(* calc_pallet.                                                            *)

\* the HashMap built by the counting loop: colour -> number of pixels.
\* The counts are u32; a frame of 2^32 pixels is beyond every bound here.
count_map(data) ==
    LET px == iter_rgb(data)
        colours == {px[i] : i \in DOMAIN px}
    IN  Table([c \in colours |-> Cardinality({i \in DOMAIN px : px[i] = c})])

ColourKey(c) == c[1] * 65536 + c[2] * 256 + c[3]

\* count.into_iter().collect::<Vec<_>>(): the entries <<colour, n>> in the
\* HashMap's iteration order.  The order depends on the RandomState the map
\* was created with, which differs from one execution to the next; seed
\* picks one: the colours in ascending (even seed) or descending (odd seed)
\* key order, rotated by seed \div 2 places.
into_iter(count, seed) ==
    LET colours == DOMAIN count
        n == Cardinality(colours)
        asc == Table([c \in colours |->
                   Cardinality({d \in colours : ColourKey(d) < ColourKey(c)})])
        at == Table([c \in colours |->
                   IF seed % 2 = 0
                   THEN (asc[c] + seed \div 2) % n
                   ELSE (n - 1 - asc[c] + seed \div 2) % n])
    IN  Table([k \in 1..n |->
            LET c == CHOOSE d \in colours : at[d] = k - 1 IN <<c, count[c]>>])

\* a variant of sorts_before comparing a.1.cmp(&b.1): ascending counts
sorts_before_asc(a, b) == a[2] < b[2]

\* the comparator |a, b| b.1.cmp(&a.1): a sorts before b when its count is
\* the larger one
sorts_before(a, b) == a[2] > b[2]

\* count.sort_unstable_by(..).  Where the comparator holds two entries equal
\* the order is the sort's own choice; the model keeps them in the order the
\* iteration gave them, which into_iter already varies.
sort_unstable_by(v) ==
    LET n == Len(v)
        order == SortSeq(Table([k \in 1..n |-> k]),
                         LAMBDA j, k : \/ sorts_before(v[j], v[k])
                                       \/ (~sorts_before(v[k], v[j]) /\ j < k))
    IN  Table([r \in 1..n |-> v[order[r]]])

\* a variant of too_many_colours testing count.len() >= 256
too_many_colours_at_limit(count) == Cardinality(DOMAIN count) >= PalletLimit

\* count.len() > 256
too_many_colours(count) == Cardinality(DOMAIN count) > PalletLimit

\* the cast `i as u8` of the 0-based rank i
as_u8(i) == i % U8Range

\* count.iter().enumerate().map(|(i, x)| (x.0, i as u8)).collect::<HashMap>();
\* the entries of sorted come from a HashMap, so their colours are distinct
make_pallet_map(sorted) ==
    Table([c \in {sorted[k][1] : k \in DOMAIN sorted} |->
              as_u8((CHOOSE k \in DOMAIN sorted : sorted[k][1] = c) - 1)])

\* a variant of make_pallet that pushes b, g, r
make_pallet_bgr(sorted) ==
    Table([j \in 1..(3 * Len(sorted)) |->
              sorted[(j + 2) \div 3][1][3 - ((j - 1) % 3)]])

\* the loop pushing r, g, b of every entry
make_pallet(sorted) ==
    Table([j \in 1..(3 * Len(sorted)) |->
              sorted[(j + 2) \div 3][1][((j - 1) % 3) + 1]])

rgb_arm(data, seed) ==
    LET count == count_map(data) IN
    IF too_many_colours(count)
    THEN [data |-> data, pallet |-> None, color |-> "Rgb", bit_depth |-> Eight]
    ELSE LET sorted == sort_unstable_by(into_iter(count, seed))
             pallet_map == make_pallet_map(sorted)
             px == iter_rgb(data)
         IN  [data |-> Table([i \in DOMAIN px |-> pallet_map[px[i]]]),
              pallet |-> Some(make_pallet(sorted)),
              color |-> "Indexed",
              bit_depth |-> Eight]

calc_pallet(data, color_type, seed) ==
    IF color_type = "Rgb"
    THEN rgb_arm(data, seed)
    ELSE [data |-> data, pallet |-> None, color |-> color_type, bit_depth |-> Eight]

---------------------------------------------------------------------------
(* encode.  enc is the environment's encoder: enc.fails is the set of      *)
(* filters on which write_header or write_image_data returns Err, and      *)
(* enc.size[f] the length of the stream it returns for filter f.           *)

EmptyVec ==
    [len |-> 0, filter |-> "", color |-> "", depth |-> 0, width |-> 0,
     height |-> 0, pallet |-> None, data |-> <<>>]

\* whether one of the two unwrap() calls of encode panics
encode_panics(enc, filter_type) == filter_type \in enc.fails

encode(enc, data, width, height, color_type, plt, depth, filter_type) ==
    [len |-> enc.size[filter_type], filter |-> filter_type, color |-> color_type,
     depth |-> depth, width |-> width, height |-> height, pallet |-> plt,
     data |-> data]

---------------------------------------------------------------------------
(* The frames and encoders the model starts from.                          *)

\* sample values of a gray or colour byte, and of an alpha byte
ColourBytes == {10, 255}

AlphaBytes == {254, 255}

ColorTypes == {"Grayscale", "GrayscaleAlpha", "Rgb", "Rgba"}

PixelValues(color_type) ==
    CASE color_type = "Grayscale"      -> [1..1 -> ColourBytes]
      [] color_type = "GrayscaleAlpha" -> {<<g, a>> : g \in ColourBytes, a \in AlphaBytes}
      [] color_type = "Rgb"            -> [1..3 -> ColourBytes]
      [] color_type = "Rgba"           ->
            {<<c[1], c[2], c[3], a>> : c \in [1..3 -> ColourBytes], a \in AlphaBytes}

\* the packed, row-major buffer of a sequence of pixels
Pack(px, ch) ==
    Table([j \in 1..(ch * Len(px)) |->
              px[((j - 1) \div ch) + 1][((j - 1) % ch) + 1]])

\* a frame of the given pixels: two rows when their number is even, one
\* row otherwise
Frame(px, color_type) ==
    LET rows == IF Len(px) % 2 = 0 THEN 2 ELSE 1 IN
    [data |-> Pack(px, Channels(color_type)), color_type |-> color_type,
     width |-> Len(px) \div rows, height |-> rows]

\* every 8-bit frame of 1..MaxPixels pixels over the sample bytes
SmallFrames ==
    UNION {UNION {
        {Frame(px, ct) : px \in [1..n -> PixelValues(ct)]} :
            ct \in ColorTypes} :
            n \in 1..MaxPixels}

\* the j-th colour (0-based) of the boundary frames: all distinct, none gray
RampColour(j) == <<j % U8Range, j \div U8Range, 7>>

RampPixel(ct, j) ==
    IF ct = "Rgb" THEN RampColour(j)
    ELSE <<RampColour(j)[1], RampColour(j)[2], RampColour(j)[3], Opaque>>

\* frames of n distinct colours, n at and just above the palette limit,
\* the last colour repeated k more times
RampFrame(ct, n, k) ==
    Frame([i \in 1..(n + k) |-> RampPixel(ct, IF i <= n THEN i - 1 ELSE n - 1)],
          ct)

RampFrames ==
    {RampFrame("Rgb", n, k) : n \in {PalletLimit, PalletLimit + 1},
                              k \in 0..MaxRepeat}
    \cup {RampFrame("Rgba", n, 0) : n \in {PalletLimit, PalletLimit + 1}}

\* one frame per path through the two reduction stages
FewFrames ==
    {Frame(<< <<10>> >>, "Grayscale"),
     Frame(<< <<10, 255, 10>> >>, "Rgb"),
     Frame(<< <<10, 10, 10, 254>> >>, "Rgba")}

FilterSet == {Filters[i] : i \in DOMAIN Filters}

\* every encoder: any length 1..MaxSize per filter, failing on at most one
AllEncoders ==
    [size : [FilterSet -> 1..MaxSize],
     fails : {{}} \cup {{f} : f \in FilterSet}]

\* the encoder that never fails and returns one length for every filter
PlainEncoders ==
    {e \in AllEncoders :
        /\ \A f \in FilterSet : e.size[f] = 1
        /\ e.fails = {}}

NoRun == [ended |-> "none", wrote |-> FALSE, file |-> EmptyVec, trials |-> <<>>]

---------------------------------------------------------------------------
(* main                                                                    *)

\* the state of a fresh process: nothing computed yet
ProcessStart ==
    /\ pc = "decoded"
    /\ trivial_compressed = <<>>
    /\ color = info.color_type
    /\ pallet_compressed = <<>>
    /\ color2 = info.color_type
    /\ pallet = None
    /\ bit_depth = 0
    /\ fidx = 1
    /\ best_size = UsizeMax
    /\ best_out = EmptyVec
    /\ trials = <<>>
    /\ wrote = FALSE

Init ==
    /\ \E fr \in SmallFrames \cup RampFrames \cup FewFrames :
          /\ bytes = fr.data
          /\ info = [color_type |-> fr.color_type, width |-> fr.width,
                     height |-> fr.height]
          /\ \/ encoder \in PlainEncoders
             \/ fr \in FewFrames /\ encoder \in AllEncoders
    /\ run = "first"
    /\ out_png = [exists |-> FALSE, content |-> EmptyVec]
    /\ prev_run = NoRun
    /\ ProcessStart

\* main.rs:47
TrivialCompress ==
    /\ pc = "decoded"
    /\ \E r \in {trivial_compress(bytes, info.color_type)} :
          /\ trivial_compressed' = r[1]
          /\ color' = r[2]
    /\ pc' = "reduced"
    /\ UNCHANGED <<run, bytes, info, encoder, pallet_compressed, color2,
                   pallet, bit_depth, fidx, best_size, best_out, trials,
                   out_png, wrote, prev_run>>

\* main.rs:48-51; the HashMap's iteration order is the process's own
CalcPallet ==
    /\ pc = "reduced"
    /\ \E seed \in 0..MaxSeed :
          \E r \in {calc_pallet(trivial_compressed, color, seed)} :
             /\ pallet_compressed' = r.data
             /\ pallet' = r.pallet
             /\ color2' = r.color
             /\ bit_depth' = r.bit_depth
    /\ best_size' = UsizeMax
    /\ best_out' = EmptyVec
    /\ fidx' = 1
    /\ pc' = "search"
    /\ UNCHANGED <<run, bytes, info, encoder, trivial_compressed, color,
                   trials, out_png, wrote, prev_run>>

\* a variant of improves testing out.len() <= best_size
improves_or_ties(len, best) == len <= best

\* out.len() < best_size
improves(len, best) == len < best

\* one iteration of the for loop, main.rs:52-59, when encode returns
Trial ==
    /\ pc = "search"
    /\ fidx <= Len(Filters)
    /\ ~encode_panics(encoder, Filters[fidx])
    /\ LET out == encode(encoder, pallet_compressed, info.width, info.height,
                         color2, pallet, bit_depth, Filters[fidx])
       IN  /\ trials' = Append(trials, [filter |-> Filters[fidx],
                                        color_type |-> color2,
                                        size |-> out.len])
           /\ IF improves(out.len, best_size)
              THEN best_size' = out.len /\ best_out' = out
              ELSE UNCHANGED <<best_size, best_out>>
    /\ fidx' = fidx + 1
    /\ UNCHANGED <<pc, run, bytes, info, encoder, trivial_compressed, color,
                   pallet_compressed, color2, pallet, bit_depth, out_png,
                   wrote, prev_run>>

\* a variant of TrialPanic in which a failed encode is skipped and the loop
\* goes on with the next filter
TrialSkip ==
    /\ pc = "search"
    /\ fidx <= Len(Filters)
    /\ encode_panics(encoder, Filters[fidx])
    /\ fidx' = fidx + 1
    /\ UNCHANGED <<pc, run, bytes, info, encoder, trivial_compressed, color,
                   pallet_compressed, color2, pallet, bit_depth, best_size,
                   best_out, trials, out_png, wrote, prev_run>>

\* one iteration of the for loop when an unwrap() in encode panics: the
\* process ends there
TrialPanic ==
    /\ pc = "search"
    /\ fidx <= Len(Filters)
    /\ encode_panics(encoder, Filters[fidx])
    /\ pc' = "panicked"
    /\ UNCHANGED <<run, bytes, info, encoder, trivial_compressed, color,
                   pallet_compressed, color2, pallet, bit_depth, fidx,
                   best_size, best_out, trials, out_png, wrote, prev_run>>

\* main.rs:60-61
WriteOut ==
    /\ pc = "search"
    /\ fidx > Len(Filters)
    /\ out_png' = [exists |-> TRUE, content |-> best_out]
    /\ wrote' = TRUE
    /\ pc' = "done"
    /\ UNCHANGED <<run, bytes, info, encoder, trivial_compressed, color,
                   pallet_compressed, color2, pallet, bit_depth, fidx,
                   best_size, best_out, trials, prev_run>>

\* the program is started again on the same source file, with the same
\* encoder; out.png stays as the ended process left it
Rerun ==
    /\ pc \in {"done", "panicked"}
    /\ run = "first"
    /\ run' = "second"
    /\ prev_run' = [ended |-> pc, wrote |-> wrote, file |-> out_png.content,
                    trials |-> trials]
    /\ pc' = "decoded"
    /\ trivial_compressed' = <<>>
    /\ color' = info.color_type
    /\ pallet_compressed' = <<>>
    /\ color2' = info.color_type
    /\ pallet' = None
    /\ bit_depth' = 0
    /\ fidx' = 1
    /\ best_size' = UsizeMax
    /\ best_out' = EmptyVec
    /\ trials' = <<>>
    /\ wrote' = FALSE
    /\ UNCHANGED <<bytes, info, encoder, out_png>>

Next ==
    \/ TrivialCompress
    \/ CalcPallet
    \/ Trial
    \/ TrialPanic
    \/ WriteOut
    \/ Rerun

Spec == Init /\ [][Next]_vars

---------------------------------------------------------------------------
(* What a PNG decoder with the EXPAND transformation makes of a buffer:    *)
(* one <<r, g, b, a>> per pixel.  An index without a palette entry decodes *)
(* to no pixel value.                                                      *)

Expand(data, color_type, plt) ==
    LET ch == Channels(color_type) IN
    [i \in 1..(Len(data) \div ch) |->
        CASE color_type = "Grayscale" ->
                <<data[i], data[i], data[i], 255>>
          [] color_type = "GrayscaleAlpha" ->
                <<data[2*i - 1], data[2*i - 1], data[2*i - 1], data[2*i]>>
          [] color_type = "Rgb" ->
                <<data[3*i - 2], data[3*i - 1], data[3*i], 255>>
          [] color_type = "Rgba" ->
                <<data[4*i - 3], data[4*i - 2], data[4*i - 1], data[4*i]>>
          [] color_type = "Indexed" ->
                IF plt.some /\ 3 * data[i] + 3 <= Len(plt.v)
                THEN <<plt.v[3 * data[i] + 1], plt.v[3 * data[i] + 2],
                       plt.v[3 * data[i] + 3], 255>>
                ELSE <<-1, -1, -1, -1>>]

\* calc_pallet has returned in this execution
Palletted == pc \in {"search", "done", "panicked"}

\* trivial_compress has returned in this execution
Reduced == pc # "decoded"

PixelCount == info.width * info.height

RgbPixelIsGray(data, i) == data[3*i - 2] = data[3*i - 1] /\ data[3*i - 2] = data[3*i]

---------------------------------------------------------------------------
(* The claims                                                              *)

\* C1: round trip.  For every input layout, the buffer, layout and palette
\* that main hands to the encoder decode to exactly the pixels of the
\* original decoded buffer, and to as many of them.
C1_RoundTrip ==
    Palletted =>
        /\ Len(Expand(pallet_compressed, color2, pallet)) = PixelCount
        /\ Expand(pallet_compressed, color2, pallet)
              = Expand(bytes, info.color_type, None)

\* C1 happens: an Rgba frame of two different pixels went through both
\* stages and reached the encoder as an indexed buffer
C1_Witness ==
    /\ pc = "done"
    /\ info.color_type = "Rgba"
    /\ color2 = "Indexed"
    /\ Len(pallet_compressed) = 2
    /\ pallet_compressed[1] # pallet_compressed[2]

\* C2: reduction soundness.  For an Rgb buffer of width*height pixels that
\* all have r = g = b, trivial_compress returns Grayscale and width*height
\* bytes, the i-th being the shared channel value of the i-th pixel.
C2_ReductionSoundness ==
    (/\ Reduced
     /\ info.color_type = "Rgb"
     /\ \A i \in 1..PixelCount : RgbPixelIsGray(bytes, i))
    => /\ color = "Grayscale"
       /\ Len(trivial_compressed) = PixelCount
       /\ \A i \in 1..PixelCount :
             /\ trivial_compressed[i] = bytes[3*i - 2]
             /\ trivial_compressed[i] = bytes[3*i - 1]
             /\ trivial_compressed[i] = bytes[3*i]

\* C2 happens: an Rgb frame of two gray pixels of different values has been
\* reduced
C2_Witness ==
    /\ pc = "reduced"
    /\ info.color_type = "Rgb"
    /\ PixelCount = 2
    /\ \A i \in 1..PixelCount : RgbPixelIsGray(bytes, i)
    /\ bytes[1] # bytes[4]
    /\ color = "Grayscale"

\* C3: reduction rejection.  For an Rgb buffer with at least one pixel whose
\* r, g, b are not all equal, wherever it is, trivial_compress returns the
\* original buffer and layout Rgb, never a partially built gray buffer.
C3_ReductionRejection ==
    (/\ Reduced
     /\ info.color_type = "Rgb"
     /\ \E i \in 1..PixelCount : ~RgbPixelIsGray(bytes, i))
    => /\ color = "Rgb"
       /\ trivial_compressed = bytes

\* C3 happens: the only pixel that is not gray is the last one, after a
\* gray one
C3_Witness ==
    /\ pc = "reduced"
    /\ info.color_type = "Rgb"
    /\ PixelCount = 2
    /\ RgbPixelIsGray(bytes, 1)
    /\ ~RgbPixelIsGray(bytes, 2)
    /\ color = "Rgb"

\* the distinct colours of an Rgb buffer
RgbColours(data) ==
    LET px == iter_rgb(data) IN {px[i] : i \in DOMAIN px}

\* the k-th entry (1-based) of a palette
PalletEntry(plt, k) == <<plt.v[3*k - 2], plt.v[3*k - 1], plt.v[3*k]>>

\* calc_pallet has just returned
JustPalletted == pc = "search" /\ fidx = 1

\* C4: palette cardinality boundary.  On an Rgb buffer calc_pallet returns
\* Indexed exactly when there are at most 256 distinct colours; with exactly
\* 256 the palette has 256 entries, no two equal, and the index bytes cover
\* 0..255; with 257 or more the buffer comes back unchanged, Rgb, no palette.
C4_PalletBoundary ==
    (JustPalletted /\ color = "Rgb") =>
        LET n == Cardinality(RgbColours(trivial_compressed)) IN
        /\ (color2 = "Indexed") <=> (n <= 256)
        /\ n = 256 =>
              /\ pallet.some
              /\ Len(pallet.v) = 3 * 256
              /\ Cardinality({PalletEntry(pallet, k) : k \in 1..256}) = 256
              /\ {pallet_compressed[i] : i \in DOMAIN pallet_compressed} = 0..255
        /\ n >= 257 =>
              /\ pallet_compressed = trivial_compressed
              /\ color2 = "Rgb"
              /\ pallet = None

\* C4 happens: calc_pallet has returned Indexed for a buffer of exactly 256
\* distinct colours
C4_Witness ==
    /\ JustPalletted
    /\ color = "Rgb"
    /\ Cardinality(RgbColours(trivial_compressed)) = 256
    /\ color2 = "Indexed"

\* C5: opacity gate.  For an Rgba buffer with at least one alpha byte other
\* than 255, whatever its colours, trivial_compress returns buffer and
\* layout unchanged, calc_pallet leaves them unchanged with no palette, and
\* every encoder trial is given layout Rgba.
C5_OpacityGate ==
    (/\ info.color_type = "Rgba"
     /\ \E i \in 1..PixelCount : bytes[4*i] # 255)
    => /\ Reduced => trivial_compressed = bytes /\ color = "Rgba"
       /\ Palletted =>
             /\ pallet_compressed = bytes
             /\ color2 = "Rgba"
             /\ pallet = None
       /\ \A t \in DOMAIN trials : trials[t].color_type = "Rgba"
       /\ wrote => out_png.content.color = "Rgba" /\ out_png.content.data = bytes

\* C5 happens: an Rgba frame of two equal gray pixels, only the second not
\* opaque, has been through all five trials
C5_Witness ==
    /\ pc = "done"
    /\ info.color_type = "Rgba"
    /\ PixelCount = 2
    /\ bytes[4] = 255
    /\ bytes[8] = 254
    /\ \A j \in {1, 2, 3, 5, 6, 7} : bytes[j] = 255
    /\ Len(trials) = 5

\* the least position of the smallest length among the trials
FirstMinimum(ts) ==
    CHOOSE k \in DOMAIN ts :
        /\ \A j \in DOMAIN ts : ts[k].size <= ts[j].size
        /\ \A j \in DOMAIN ts : ts[j].size = ts[k].size => k <= j

\* C6: filter selection rule.  When the output is written all five filters
\* have been tried in the order NoFilter, Sub, Up, Avg, Paeth, and the bytes
\* written are those of the trial of minimum length, the earliest one when
\* several share it.
C6_FilterSelection ==
    wrote =>
        /\ [t \in DOMAIN trials |-> trials[t].filter]
              = <<"NoFilter", "Sub", "Up", "Avg", "Paeth">>
        /\ out_png.content.len = trials[FirstMinimum(trials)].size
        /\ out_png.content.filter = trials[FirstMinimum(trials)].filter
        /\ out_png.content =
              encode(encoder, pallet_compressed, info.width, info.height,
                     color2, pallet, bit_depth,
                     trials[FirstMinimum(trials)].filter)

\* C6 happens: the minimum is shared by Sub and Avg, NoFilter is longer,
\* and Sub's output has been written
C6_Witness ==
    /\ pc = "done"
    /\ trials[1].size > trials[2].size
    /\ trials[4].size = trials[2].size
    /\ trials[3].size >= trials[2].size
    /\ trials[5].size >= trials[2].size
    /\ out_png.content.filter = "Sub"

\* the position in Filters of the filter the encoder fails on
FailingIndex == CHOOSE k \in DOMAIN Filters : Filters[k] \in encoder.fails

\* C8: encoder failure is fatal.  If the encoder fails on a trial the run
\* aborts at that trial: the trials before it were run, none after it is,
\* nothing is written; the output is written only when all five succeeded.
C8_EncoderFailureFatal ==
    /\ encoder.fails # {} =>
          /\ ~wrote
          /\ Len(trials) < FailingIndex
          /\ fidx <= FailingIndex
          /\ pc \notin {"done"}
          /\ run = "first" => ~out_png.exists
    /\ pc = "panicked" =>
          /\ encoder.fails # {}
          /\ fidx = FailingIndex
          /\ Len(trials) = FailingIndex - 1
    /\ wrote =>
          /\ encoder.fails = {}
          /\ Len(trials) = 5

\* C8 happens: the encoder failed on the last trial, after four trials that
\* left a best-so-far candidate
C8_Witness ==
    /\ pc = "panicked"
    /\ fidx = 5
    /\ Len(trials) = 4
    /\ best_size < UsizeMax
    /\ best_out # EmptyVec
    /\ ~wrote

\* C9: Rgba opaque policy.  For an Rgba buffer whose alpha bytes are all
\* 255, trivial_compress returns Grayscale with the red byte of each pixel
\* when every pixel has r = g = b, and otherwise Rgb with r, g, b of each
\* pixel in order; never Rgba.
C9_RgbaOpaque ==
    (/\ Reduced
     /\ info.color_type = "Rgba"
     /\ \A i \in 1..PixelCount : bytes[4*i] = 255)
    => /\ color # "Rgba"
       /\ IF \A i \in 1..PixelCount :
                bytes[4*i - 3] = bytes[4*i - 2] /\ bytes[4*i - 3] = bytes[4*i - 1]
          THEN /\ color = "Grayscale"
               /\ Len(trivial_compressed) = PixelCount
               /\ \A i \in 1..PixelCount : trivial_compressed[i] = bytes[4*i - 3]
          ELSE /\ color = "Rgb"
               /\ Len(trivial_compressed) = 3 * PixelCount
               /\ \A i \in 1..PixelCount : \A k \in 1..3 :
                     trivial_compressed[3*(i - 1) + k] = bytes[4*(i - 1) + k]

\* C9 happens: an opaque Rgba frame whose first pixel is gray and whose
\* second is not has been reduced to Rgb
C9_Witness ==
    /\ pc = "reduced"
    /\ info.color_type = "Rgba"
    /\ PixelCount = 2
    /\ bytes[4] = 255 /\ bytes[8] = 255
    /\ bytes[1] = bytes[2] /\ bytes[1] = bytes[3]
    /\ bytes[5] = bytes[6] /\ bytes[5] # bytes[7]
    /\ color = "Rgb"

\* the number of pixels of an Rgb buffer that have colour c
PixelsOf(data, c) ==
    LET px == iter_rgb(data) IN Cardinality({i \in DOMAIN px : px[i] = c})

\* C10: palette index assignment.  Whenever calc_pallet returns Indexed the
\* palette lists every distinct colour of the input exactly once, at most
\* 256 of them, in non-increasing order of pixel count, and the index byte
\* of each pixel is below the palette length and is the 0-based rank of the
\* pixel's colour in the palette.
C10_PalletIndex ==
    (JustPalletted /\ color2 = "Indexed") =>
        LET px == iter_rgb(trivial_compressed)
            colours == {px[i] : i \in DOMAIN px}
            n == Cardinality(colours)
            entry == [k \in 1..n |-> PalletEntry(pallet, k)] @@ <<>>
            pixels == [k \in 1..n |->
                          Cardinality({i \in DOMAIN px : px[i] = entry[k]})] @@ <<>>
        IN  /\ pallet.some
            /\ n <= 256
            /\ Len(pallet.v) = 3 * n
            /\ {entry[k] : k \in 1..n} = colours
            /\ \A k \in 1..(n - 1) : pixels[k] >= pixels[k + 1]
            /\ Len(pallet_compressed) = Len(px)
            /\ \A i \in DOMAIN px :
                  /\ pallet_compressed[i] >= 0
                  /\ pallet_compressed[i] < n
                  /\ entry[pallet_compressed[i] + 1] = px[i]

\* C10 happens: calc_pallet has returned a palette of 256 colours of which
\* the first has more pixels than the second
C10_Witness ==
    /\ JustPalletted
    /\ color2 = "Indexed"
    /\ Len(pallet.v) = 3 * 256
    /\ PixelsOf(trivial_compressed, PalletEntry(pallet, 1))
          > PixelsOf(trivial_compressed, PalletEntry(pallet, 2))

\* C7: determinism.  Two executions on the same decoded frame, with the
\* encoder a function of its arguments, select the same filter and write
\* byte-identical output, with the same palette order and index bytes.
C7_Determinism ==
    (run = "second" /\ pc = "done" /\ prev_run.ended = "done") =>
        /\ out_png.content.filter = prev_run.file.filter
        /\ out_png.content.pallet = prev_run.file.pallet
        /\ out_png.content.data = prev_run.file.data
        /\ out_png.content = prev_run.file

=============================================================================
